---- MODULE Spec2Model ----
(***************************************************************************)
(* Model of the metadata propagation service (server.go).                  *)
(*                                                                         *)
(* The record store is a set of rows (id, path, checksum, etag, mtime).    *)
(* Every request handler (Get, Put, Mv, Rm) runs as a process; each        *)
(* statement that the handler sends to the database is one atomic step,    *)
(* so handlers interleave at statement granularity, as they do on the      *)
(* shared *gorm.DB.  Paths are strings, modelled as sequences of           *)
(* one-character strings, so that strings.Split, strings.Trim, path.Clean, *)
(* path.Join and SQL LIKE are computed as the library computes them.       *)
(***************************************************************************)
EXTENDS Integers, Sequences, FiniteSets, TLC

(***************************************************************************)
(* Bounds of the model.                                                    *)
(***************************************************************************)
\* the request handlers: at most two requests are in flight at the same time
Procs == {1, 2}
\* total number of requests served in one behaviour
MaxReqs == 2
\* the wall clock (seconds) runs from 1 to MaxClock
MaxClock == 2

(***************************************************************************)
(* Strings.                                                                *)
(***************************************************************************)
Sep == "/"

\* the parent directory of the users' home directories, and one home
UsersDir == <<"/", "h", "/", "o", "/", "m">>
Home == UsersDir \o <<"/", "e">>

\* s + "/" + name
Sub(s, name) == s \o <<Sep>> \o name

HasPrefix(s, prefix) ==
    /\ Len(s) >= Len(prefix)
    /\ SubSeq(s, 1, Len(prefix)) = prefix

\* the set of characters of a string
Chars(s) == {s[k] : k \in 1..Len(s)}

\* strings.Split(s, "/")
RECURSIVE SplitAcc(_, _, _)
SplitAcc(s, cur, acc) ==
    IF s = <<>> THEN Append(acc, cur)
    ELSE IF Head(s) = Sep THEN SplitAcc(Tail(s), <<>>, Append(acc, cur))
    ELSE SplitAcc(Tail(s), Append(cur, Head(s)), acc)

Split(s) == SplitAcc(s, <<>>, <<>>)

\* strings.Join(elems, "/")
RECURSIVE JoinTokens(_)
JoinTokens(elems) ==
    IF elems = <<>> THEN <<>>
    ELSE IF Len(elems) = 1 THEN elems[1]
    ELSE elems[1] \o <<Sep>> \o JoinTokens(Tail(elems))

\* strings.Trim(s, cutset): drops every leading and every trailing character
\* of s that occurs in cutset
RECURSIVE TrimLeft(_, _)
TrimLeft(s, cutset) ==
    IF s # <<>> /\ Head(s) \in Chars(cutset) THEN TrimLeft(Tail(s), cutset) ELSE s

RECURSIVE TrimRight(_, _)
TrimRight(s, cutset) ==
    IF s # <<>> /\ s[Len(s)] \in Chars(cutset)
    THEN TrimRight(SubSeq(s, 1, Len(s) - 1), cutset)
    ELSE s

Trim(s, cutset) == TrimRight(TrimLeft(s, cutset), cutset)

Dot == <<".">>
DotDot == <<".", ".">>

\* path.Clean: the elements of p that remain after dropping empty and "."
\* elements and resolving ".." elements
RECURSIVE CleanAcc(_, _, _)
CleanAcc(toks, rooted, out) ==
    IF toks = <<>> THEN out
    ELSE LET t == Head(toks)
             rest == Tail(toks)
         IN  IF t = <<>> \/ t = Dot THEN CleanAcc(rest, rooted, out)
             ELSE IF t = DotDot
                  THEN IF out # <<>> /\ out[Len(out)] # DotDot
                       THEN CleanAcc(rest, rooted, SubSeq(out, 1, Len(out) - 1))
                       ELSE IF rooted THEN CleanAcc(rest, rooted, out)
                       ELSE CleanAcc(rest, rooted, Append(out, t))
             ELSE CleanAcc(rest, rooted, Append(out, t))

\* path.Clean(p)
Clean(p) ==
    IF p = <<>> THEN Dot
    ELSE LET rooted == p[1] = Sep
             body == JoinTokens(CleanAcc(Split(p), rooted, <<>>))
         IN  IF rooted THEN <<Sep>> \o body
             ELSE IF body = <<>> THEN Dot ELSE body

\* path.Join(elems...): the non-empty elements joined by "/", cleaned
Join(elems) ==
    LET nonEmpty == SelectSeq(elems, LAMBDA e : e # <<>>)
    IN  IF nonEmpty = <<>> THEN <<>> ELSE Clean(JoinTokens(nonEmpty))

\* uint32(x): the conversion of a Unix time to the width of the column
\* m_time.  It changes no time before the year 2106, and the clock of the
\* model stays far below 2^32 seconds
Uint32(x) == IF x >= 0 THEN x ELSE 0 - x

(***************************************************************************)
(* getPathsTillHome.                                                       *)
(***************************************************************************)
\* the number of tokens of strings.Split(p, "/") that make up the home
HomeTokens == 5

\* tokens[0:5] is out of range: the slice expression panics
SlicePanics(p) == Len(Split(p)) < HomeTokens

RECURSIVE PathsFrom(_, _)
PathsFrom(previous, restTokens) ==
    IF restTokens = <<>> THEN <<>>
    ELSE LET next == Join(<<previous, Clean(Head(restTokens))>>)
         IN  <<next>> \o PathsFrom(next, Tail(restTokens))

getPathsTillHome(p) ==
    LET tokens == Split(p)
        homeTokens == SubSeq(tokens, 1, HomeTokens)
        restTokens == SubSeq(tokens, HomeTokens + 1, Len(tokens))
        home == Clean(<<Sep>> \o Join(homeTokens))
    IN  <<home>> \o PathsFrom(home, restTokens)

(***************************************************************************)
(* The record store: the table "records".                                  *)
(***************************************************************************)
\* uuid.New() values are numbered; 0 is the empty string
NoUUID == 0

\* uuid.New(): a value no earlier call returned.  A request draws at most
\* two uuids (Put: etag, then id); request number n draws the n-th pair
\* after the uuids of the initial store
NewUUID(base, n, which) == base + 2 * (n - 1) + which

\* the zero value of record / pb.Record
EmptyRecord == [id |-> NoUUID, path |-> <<>>, checksum |-> "", etag |-> NoUUID, mtime |-> 0]

\* the rows that collide with (id, path) on a unique key of the table:
\* id is the primary key, path carries a unique index
DuplicateKey(db, id, path) == {r \in db : r.id = id \/ r.path = path}

\* SELECT * FROM records WHERE path = ?
getByPath(db, path) == {r \in db : r.path = path}

\* SELECT * FROM records WHERE path LIKE p% (the paths of the model hold no
\* LIKE wildcard, so the pattern is a plain prefix)
getRecordsWithPathPrefix(db, p) == {r \in db : HasPrefix(r.path, p)}

\* a plain INSERT that no unique key stops
insertAlways(db, id, p, checksum, etag, mtime) ==
    {db \cup {[id |-> id, path |-> p, checksum |-> checksum, etag |-> etag, mtime |-> mtime]}}

\* REPLACE INTO: the colliding rows give way to the new row, id included
insertReplace(db, id, p, checksum, etag, mtime) ==
    {(db \ DuplicateKey(db, id, p))
        \cup {[id |-> id, path |-> p, checksum |-> checksum, etag |-> etag, mtime |-> mtime]}}

\* INSERT ... ON DUPLICATE KEY UPDATE checksum, e_tag, m_time: the stores
\* that can result (when the row collides with several rows, one is updated)
insert(db, id, p, checksum, etag, mtime) ==
    LET dup == DuplicateKey(db, id, p)
        row == [id |-> id, path |-> p, checksum |-> checksum, etag |-> etag, mtime |-> mtime]
    IN  IF dup = {} THEN {db \cup {row}}
        ELSE {(db \ {r}) \cup {[r EXCEPT !.checksum = checksum, !.etag = etag, !.mtime = mtime]} :
                r \in dup}

\* the condition on m_time turned around
updateMatchesNewer(db, p, mtime) == {r \in db : r.path = p /\ r.mtime > mtime}

\* the condition on m_time left out
updateMatchesAny(db, p, mtime) == {r \in db : r.path = p}

\* the rows UPDATE ... WHERE path = ? AND m_time < ? matches
updateMatches(db, p, mtime) == {r \in db : r.path = p /\ r.mtime < mtime}

\* UPDATE records SET e_tag, m_time WHERE path = ? AND m_time < ?
update(db, p, etag, mtime) ==
    LET hit == updateMatches(db, p, mtime)
    IN  (db \ hit) \cup {[r EXCEPT !.etag = etag, !.mtime = mtime] : r \in hit}

\* the path Mv computes for a matched record
mvNewPath(src, dst, recPath) == Join(<<dst, Clean(Trim(recPath, src))>>)

\* UPDATE records SET e_tag, m_time, path WHERE id = ? fails on the unique
\* index when another row already holds the new path
mvUpdateFails(db, id, newPath) ==
    /\ \E r \in db : r.id = id
    /\ \E r \in DuplicateKey(db, id, newPath) : r.id # id

\* the row deleted and created anew under the new path, without its checksum
mvUpdateRecreate(db, id, etag, mtime, newPath) ==
    LET hit == {r \in db : r.id = id}
    IN  (db \ hit) \cup {[r EXCEPT !.etag = etag, !.mtime = mtime, !.path = newPath,
                                   !.checksum = ""] : r \in hit}

mvUpdate(db, id, etag, mtime, newPath) ==
    LET hit == {r \in db : r.id = id}
    IN  (db \ hit) \cup {[r EXCEPT !.etag = etag, !.mtime = mtime, !.path = newPath] : r \in hit}

\* DELETE FROM records WHERE path LIKE p% AND m_time < ts
rmDelete(db, p, ts) == {r \in db : ~(HasPrefix(r.path, p) /\ r.mtime < ts)}

(***************************************************************************)
(* Requests.                                                               *)
(***************************************************************************)
A == Sub(Home, <<"a">>)
AE == Sub(A, <<"e">>)
AB == Sub(Home, <<"a", "b">>)
Z == Sub(Home, <<"z">>)

PutReq(p, c, t) == [op |-> "Put", path |-> p, dst |-> <<>>, checksum |-> c, force |-> FALSE, token |-> t]
GetReq(p, f, t) == [op |-> "Get", path |-> p, dst |-> <<>>, checksum |-> "", force |-> f, token |-> t]
MvReq(s, d, t) == [op |-> "Mv", path |-> s, dst |-> d, checksum |-> "", force |-> FALSE, token |-> t]
RmReq(p, t) == [op |-> "Rm", path |-> p, dst |-> <<>>, checksum |-> "", force |-> FALSE, token |-> t]

Requests ==
    {PutReq(p, "c1", "valid") : p \in {A, AE}}
        \cup {GetReq(AE, f, "valid") : f \in BOOLEAN}
        \cup {MvReq(A, Z, "valid")}
        \cup {RmReq(A, "valid")}
        \cup {PutReq(UsersDir, "c1", "valid")}
        \cup {PutReq(A, "c1", "bad"), GetReq(AE, TRUE, "bad"), MvReq(A, Z, "bad"), RmReq(A, "bad")}

RequestsOf(op) == {r \in Requests : r.op = op}

NoReq == [op |-> "", path |-> <<>>, dst |-> <<>>, checksum |-> "", force |-> FALSE, token |-> ""]

\* the store after Put(Home), Put(A) and Put(AB, "c0"), all served within
\* second 1: the home directory, the directory a and the file ab beside it
InitDb ==
    { [id |-> 2, path |-> Home, checksum |-> "", etag |-> 1, mtime |-> 1],
      [id |-> 4, path |-> A, checksum |-> "", etag |-> 3, mtime |-> 1],
      [id |-> 6, path |-> AB, checksum |-> "c0", etag |-> 5, mtime |-> 1] }

InitUUIDs == 2 * Cardinality(InitDb)

(***************************************************************************)
(* State.                                                                  *)
(***************************************************************************)
VARIABLES
    db,       \* the rows of the table records
    now,      \* the value time.Now().Unix() returned last
    nreq,     \* how many requests have been received
    serial,   \* serial[i]: the number of the request handler i serves
    pc,       \* pc[i]: the statement handler i executes next
    req,      \* req[i]: the request handler i serves
    id,       \* Put: var id
    etag,     \* Put, Mv: etag; Rm: the uuid passed to propagateChanges
    mtime,    \* Put, Mv: mtime
    ts,       \* Rm: ts
    recs,     \* Mv: the matched records not yet renamed
    paths,    \* propagateChanges: paths
    k,        \* propagateChanges: position of the next path in paths
    res,      \* res[i]: the outcome of the request i served
    ret,      \* ret[i]: the record Get returned
    pre,      \* history: the store when request i was received
    alone,    \* history: no other request was in flight during request i
    matched,  \* history: Mv: the records the prefix query returned
    moved,    \* history: Mv: the ids of the records it has rewritten
    landed,   \* history: Put: the Rm requests that held their cutoff when the upsert ran
    prior     \* history: the Put that returned right before request i was received

locals == <<id, etag, mtime, ts, recs, paths, k>>
hist == <<pre, alone, matched, moved, landed, prior>>
vars == <<db, now, nreq, serial, pc, req, locals, res, ret, hist>>

InFlight(i) == pc[i] \notin {"idle", "done"}

\* a handler has panicked: no handler recovers, so the process has ended
Crashed == \E i \in Procs : pc[i] = "crashed"

\* no Put returned right before
NoPut == [op |-> "", path |-> <<>>, checksum |-> "", etag |-> NoUUID, mtime |-> 0]

Init ==
    /\ db = InitDb
    /\ now = 1
    /\ nreq = 0
    /\ serial = [i \in Procs |-> 0]
    /\ pc = [i \in Procs |-> "idle"]
    /\ req = [i \in Procs |-> NoReq]
    /\ id = [i \in Procs |-> NoUUID]
    /\ etag = [i \in Procs |-> NoUUID]
    /\ mtime = [i \in Procs |-> 0]
    /\ ts = [i \in Procs |-> 0]
    /\ recs = [i \in Procs |-> {}]
    /\ paths = [i \in Procs |-> <<>>]
    /\ k = [i \in Procs |-> 1]
    /\ res = [i \in Procs |-> ""]
    /\ ret = [i \in Procs |-> EmptyRecord]
    /\ pre = [i \in Procs |-> {}]
    /\ alone = [i \in Procs |-> TRUE]
    /\ matched = [i \in Procs |-> {}]
    /\ moved = [i \in Procs |-> {}]
    /\ landed = [i \in Procs |-> {}]
    /\ prior = [i \in Procs |-> NoPut]

\* the values time.Now().Unix() can return: the clock never runs backwards
ClockReads == now..MaxClock

(***************************************************************************)
(* Request entry: lib.ParseToken and path.Clean.                           *)
(***************************************************************************)
\* the state of the handlers when handler i starts on a request with v:
\* handlers that have returned keep nothing of the request they served
Fresh(f, i, v, zero) ==
    [j \in Procs |-> IF j = i THEN v ELSE IF InFlight(j) THEN f[j] ELSE zero]

\* the checksum Put stores: Get's internal Put request carries none
PutChecksum(i) == IF req[i].op = "Get" THEN "" ELSE req[i].checksum

\* the Put (of a Put request, or of a Get with ForceCreation) that was served
\* with no other request in flight and is the last request received so far
LastPut ==
    LET last == {j \in Procs : /\ pc[j] = "done" /\ alone[j] /\ res[j] = "ok"
                               /\ req[j].op \in {"Put", "Get"} /\ etag[j] # NoUUID}
    IN  IF last = {} THEN NoPut
        ELSE LET j == CHOOSE h \in last : TRUE
             IN  [op |-> req[j].op, path |-> req[j].path, checksum |-> PutChecksum(j),
                  etag |-> etag[j], mtime |-> mtime[j]]

\* a verification that lets every token pass
ParseTokenAcceptsAll(t) == TRUE

\* lib.ParseToken(req.AccessToken, s.p.sharedSecret) returns no error
ParseToken(t) == t = "valid"

\* handler i, the lowest free one, receives request r and its token
\* verifies: p := path.Clean(req.Path)
Receive(i, r) ==
    /\ ~InFlight(i)
    /\ \A j \in Procs : j < i => InFlight(j)
    /\ nreq < MaxReqs
    /\ ~Crashed
    /\ ParseToken(r.token)
    /\ nreq' = nreq + 1
    /\ serial' = Fresh(serial, i, nreq + 1, 0)
    /\ req' = Fresh(req, i, [r EXCEPT !.path = Clean(r.path),
                                      !.dst = IF r.op = "Mv" THEN Clean(r.dst) ELSE r.dst],
                    NoReq)
    /\ pre' = Fresh(pre, i, db, {})
    /\ alone' = [j \in Procs |-> IF j = i THEN \A o \in Procs \ {i} : ~InFlight(o) ELSE FALSE]
    /\ moved' = Fresh(moved, i, {}, {})
    /\ landed' = Fresh(landed, i, {}, {})
    /\ prior' = Fresh(prior, i, LastPut, NoPut)
    /\ id' = Fresh(id, i, NoUUID, NoUUID)
    /\ paths' = Fresh(paths, i, <<>>, <<>>)
    /\ k' = Fresh(k, i, 1, 1)

\* handler i, the lowest free one, receives a request of kind op whose token
\* does not verify: the handler returns unauthenticatedError at once
Unauthenticated(i, op) ==
    /\ ~InFlight(i)
    /\ \A j \in Procs : j < i => InFlight(j)
    /\ nreq < MaxReqs
    /\ ~Crashed
    /\ \E r \in RequestsOf(op) :
        /\ ~ParseToken(r.token)
        /\ req' = Fresh(req, i, r, NoReq)
    /\ nreq' = nreq + 1
    /\ serial' = Fresh(serial, i, nreq + 1, 0)
    /\ pc' = Fresh(pc, i, "done", "idle")
    /\ res' = Fresh(res, i, "Unauthenticated", "")
    /\ ret' = Fresh(ret, i, EmptyRecord, EmptyRecord)
    /\ pre' = Fresh(pre, i, db, {})
    /\ alone' = [j \in Procs |-> IF j = i THEN \A o \in Procs \ {i} : ~InFlight(o) ELSE FALSE]
    /\ matched' = Fresh(matched, i, {}, {})
    /\ moved' = Fresh(moved, i, {}, {})
    /\ landed' = Fresh(landed, i, {}, {})
    /\ prior' = Fresh(prior, i, LastPut, NoPut)
    /\ id' = Fresh(id, i, NoUUID, NoUUID)
    /\ etag' = Fresh(etag, i, NoUUID, NoUUID)
    /\ mtime' = Fresh(mtime, i, 0, 0)
    /\ ts' = Fresh(ts, i, 0, 0)
    /\ recs' = Fresh(recs, i, {}, {})
    /\ paths' = Fresh(paths, i, <<>>, <<>>)
    /\ k' = Fresh(k, i, 1, 1)
    /\ UNCHANGED <<db, now>>

GetUnauthenticated(i) == Unauthenticated(i, "Get")

PutUnauthenticated(i) == Unauthenticated(i, "Put")

MvUnauthenticated(i) == Unauthenticated(i, "Mv")

RmUnauthenticated(i) == Unauthenticated(i, "Rm")

(***************************************************************************)
(* propagateChanges.                                                       *)
(***************************************************************************)
\* where a handler continues when it enters propagateChanges(p, ...):
\* getPathsTillHome panics on a path above the home directories, and the
\* panic ends the process with every request that is in flight
EnterPropagate(i, p) ==
    IF SlicePanics(p)
    THEN /\ pc' = [j \in Procs |-> IF j = i \/ InFlight(j) THEN "crashed" ELSE pc[j]]
         /\ res' = [res EXCEPT ![i] = "panic"]
         /\ paths' = [paths EXCEPT ![i] = <<>>]
         /\ k' = [k EXCEPT ![i] = 1]
    ELSE /\ pc' = [pc EXCEPT ![i] = "propagate"]
         /\ res' = [res EXCEPT ![i] = ""]
         /\ paths' = [paths EXCEPT ![i] = getPathsTillHome(p)]
         /\ k' = [k EXCEPT ![i] = 1]

\* the fingerprint propagateChanges hands to update
PropMTime(i) == IF req[i].op = "Rm" THEN Uint32(ts[i]) ELSE mtime[i]

\* one iteration of the loop of propagateChanges: s.update(p, etag, mtime);
\* after the last one the handler returns (Get goes on to its second lookup)
Propagate(i) ==
    /\ pc[i] = "propagate"
    /\ db' = update(db, paths[i][k[i]], etag[i], PropMTime(i))
    /\ IF k[i] < Len(paths[i])
       THEN /\ k' = [k EXCEPT ![i] = k[i] + 1]
            /\ UNCHANGED <<pc, res>>
       ELSE /\ k' = k
            /\ IF req[i].op = "Get"
               THEN /\ pc' = [pc EXCEPT ![i] = "get_relookup"]
                    /\ res' = res
               ELSE /\ pc' = [pc EXCEPT ![i] = "done"]
                    /\ res' = [res EXCEPT ![i] = "ok"]
    /\ UNCHANGED <<now, nreq, serial, req, id, etag, mtime, ts, recs, paths, ret, hist>>

(***************************************************************************)
(* Put.                                                                    *)
(***************************************************************************)
\* a Put request arrives:
\* var etag = uuid.New(); var mtime = uint32(time.Now().Unix())
PutCall(i) ==
    /\ \E r \in RequestsOf("Put") : Receive(i, r)
    /\ ts' = Fresh(ts, i, 0, 0)
    /\ etag' = Fresh(etag, i, NewUUID(InitUUIDs, nreq + 1, 1), NoUUID)
    /\ \E t \in ClockReads :
        /\ now' = t
        /\ mtime' = Fresh(mtime, i, Uint32(t), 0)
    /\ pc' = Fresh(pc, i, "put_lookup", "idle")
    /\ res' = Fresh(res, i, "", "")
    /\ ret' = Fresh(ret, i, EmptyRecord, EmptyRecord)
    /\ recs' = Fresh(recs, i, {}, {})
    /\ matched' = Fresh(matched, i, {}, {})
    /\ db' = db

\* the Put that Get runs for ForceCreation:
\* var etag = uuid.New(); var mtime = uint32(time.Now().Unix())
PutBegin(i) ==
    /\ pc[i] = "put_begin"
    /\ etag' = [etag EXCEPT ![i] = NewUUID(InitUUIDs, serial[i], 1)]
    /\ \E t \in ClockReads :
        /\ now' = t
        /\ mtime' = [mtime EXCEPT ![i] = Uint32(t)]
    /\ pc' = [pc EXCEPT ![i] = "put_lookup"]
    /\ UNCHANGED <<db, nreq, serial, req, id, ts, recs, paths, k, res, ret, hist>>

\* r, err := s.getByPath(p): the id of the record found, or a new one
PutLookup(i) ==
    /\ pc[i] = "put_lookup"
    /\ LET found == getByPath(db, req[i].path)
       IN  IF found = {}
           THEN id' = [id EXCEPT ![i] = NewUUID(InitUUIDs, serial[i], 2)]
           ELSE \E r \in found : id' = [id EXCEPT ![i] = r.id]
    /\ pc' = [pc EXCEPT ![i] = "put_insert"]
    /\ UNCHANGED <<db, now, nreq, serial, req, etag, mtime, ts, recs, paths, k, res, ret, hist>>

\* s.insert(id, p, req.Checksum, etag, mtime), then on to propagateChanges
PutInsert(i) ==
    /\ pc[i] = "put_insert"
    /\ db' \in insert(db, id[i], req[i].path, PutChecksum(i), etag[i], mtime[i])
    /\ landed' = [landed EXCEPT ![i] =
                    {serial[j] : j \in {h \in Procs : req[h].op = "Rm"
                                                      /\ pc[h] \in {"rm_delete", "propagate"}}}]
    /\ EnterPropagate(i, req[i].path)
    /\ UNCHANGED <<now, nreq, serial, req, id, etag, mtime, ts, recs, ret,
                   pre, alone, matched, moved, prior>>

(***************************************************************************)
(* Get.                                                                    *)
(***************************************************************************)
\* the projection without r.Checksum = rec.Checksum
ProjectionWithoutChecksum(rec) ==
    [id |-> rec.id, path |-> rec.path, checksum |-> "", etag |-> rec.etag, mtime |-> rec.mtime]

\* the projection of a record Get returns
Projection(rec) == [id |-> rec.id, path |-> rec.path, checksum |-> rec.checksum,
                    etag |-> rec.etag, mtime |-> rec.mtime]

\* the test of req.ForceCreation left out: every miss creates
ForceCreationIgnored(r) == TRUE

\* req.ForceCreation
ForceCreation(r) == r.force

\* a Get request arrives; rec, err = s.getByPath(p): a hit is returned, a
\* miss fails unless ForceCreation asks for the internal Put
GetCall(i) ==
    /\ \E r \in RequestsOf("Get") : Receive(i, r)
    /\ ts' = Fresh(ts, i, 0, 0)
    /\ LET found == getByPath(db, req'[i].path)
       IN  IF found # {}
           THEN /\ \E r \in found : ret' = Fresh(ret, i, Projection(r), EmptyRecord)
                /\ res' = Fresh(res, i, "ok", "")
                /\ pc' = Fresh(pc, i, "done", "idle")
           ELSE /\ ret' = Fresh(ret, i, EmptyRecord, EmptyRecord)
                /\ IF ForceCreation(req'[i])
                   THEN /\ res' = Fresh(res, i, "", "")
                        /\ pc' = Fresh(pc, i, "put_begin", "idle")
                   ELSE /\ res' = Fresh(res, i, "NotFound", "")
                        /\ pc' = Fresh(pc, i, "done", "idle")
    /\ etag' = Fresh(etag, i, NoUUID, NoUUID)
    /\ mtime' = Fresh(mtime, i, 0, 0)
    /\ recs' = Fresh(recs, i, {}, {})
    /\ matched' = Fresh(matched, i, {}, {})
    /\ UNCHANGED <<db, now>>

\* Get returning after the internal Put without the second lookup
GetRelookupSkipped(i) ==
    /\ pc[i] = "get_relookup"
    /\ ret' = [ret EXCEPT ![i] = EmptyRecord]
    /\ res' = [res EXCEPT ![i] = "ok"]
    /\ pc' = [pc EXCEPT ![i] = "done"]
    /\ UNCHANGED <<db, now, nreq, serial, req, locals, hist>>

\* after the internal Put: rec, err = s.getByPath(p); a miss returns an
\* empty record and no error
GetRelookup(i) ==
    /\ pc[i] = "get_relookup"
    /\ LET found == getByPath(db, req[i].path)
       IN  IF found # {}
           THEN \E r \in found : ret' = [ret EXCEPT ![i] = Projection(r)]
           ELSE ret' = [ret EXCEPT ![i] = EmptyRecord]
    /\ res' = [res EXCEPT ![i] = "ok"]
    /\ pc' = [pc EXCEPT ![i] = "done"]
    /\ UNCHANGED <<db, now, nreq, serial, req, locals, hist>>

(***************************************************************************)
(* Mv.                                                                     *)
(***************************************************************************)
\* a Mv request arrives; recs, err := s.getRecordsWithPathPrefix(src)
MvCall(i) ==
    /\ \E r \in RequestsOf("Mv") : Receive(i, r)
    /\ ts' = Fresh(ts, i, 0, 0)
    /\ recs' = Fresh(recs, i, getRecordsWithPathPrefix(db, req'[i].path), {})
    /\ matched' = Fresh(matched, i, recs'[i], {})
    /\ pc' = Fresh(pc, i, "mv_begin", "idle")
    /\ res' = Fresh(res, i, "", "")
    /\ ret' = Fresh(ret, i, EmptyRecord, EmptyRecord)
    /\ etag' = Fresh(etag, i, NoUUID, NoUUID)
    /\ mtime' = Fresh(mtime, i, 0, 0)
    /\ UNCHANGED <<db, now>>

\* etag := uuid.New(); mtime := uint32(time.Now().Unix()); tx := s.db.Begin().
\* With nothing to rename the loop is skipped: tx.Commit(), propagateChanges
MvBegin(i) ==
    /\ pc[i] = "mv_begin"
    /\ etag' = [etag EXCEPT ![i] = NewUUID(InitUUIDs, serial[i], 1)]
    /\ \E t \in ClockReads :
        /\ now' = t
        /\ mtime' = [mtime EXCEPT ![i] = Uint32(t)]
    /\ IF recs[i] = {}
       THEN EnterPropagate(i, req[i].dst)
       ELSE /\ pc' = [pc EXCEPT ![i] = "mv_update"]
            /\ UNCHANGED <<res, paths, k>>
    /\ UNCHANGED <<db, nreq, serial, req, id, ts, recs, ret, hist>>

\* one iteration of the loop over recs (rows come in no specified order):
\* the UPDATE runs on s.db, outside tx, so it takes effect at once; when it
\* fails, tx.Rollback() undoes nothing and Mv returns the error; after the
\* last iteration tx.Commit() and propagateChanges(dst, ...)
MvUpdate(i) ==
    /\ pc[i] = "mv_update"
    /\ \E rec \in recs[i] :
        LET newPath == mvNewPath(req[i].path, req[i].dst, rec.path)
        IN  IF mvUpdateFails(db, rec.id, newPath)
            THEN /\ pc' = [pc EXCEPT ![i] = "done"]
                 /\ res' = [res EXCEPT ![i] = "error"]
                 /\ UNCHANGED <<db, recs, moved, paths, k>>
            ELSE /\ db' = mvUpdate(db, rec.id, etag[i], mtime[i], newPath)
                 /\ recs' = [recs EXCEPT ![i] = recs[i] \ {rec}]
                 /\ moved' = [moved EXCEPT ![i] =
                                moved[i] \cup {r.id : r \in {x \in db : x.id = rec.id}}]
                 /\ IF recs'[i] = {}
                    THEN EnterPropagate(i, req[i].dst)
                    ELSE UNCHANGED <<pc, res, paths, k>>
    /\ UNCHANGED <<now, nreq, serial, req, id, etag, mtime, ts, ret,
                   pre, alone, matched, landed, prior>>

(***************************************************************************)
(* Rm.                                                                     *)
(***************************************************************************)
\* a Rm request arrives; ts := time.Now().Unix()
RmCall(i) ==
    /\ \E r \in RequestsOf("Rm") : Receive(i, r)
    /\ \E t \in ClockReads :
        /\ now' = t
        /\ ts' = Fresh(ts, i, t, 0)
    /\ pc' = Fresh(pc, i, "rm_delete", "idle")
    /\ res' = Fresh(res, i, "", "")
    /\ ret' = Fresh(ret, i, EmptyRecord, EmptyRecord)
    /\ etag' = Fresh(etag, i, NoUUID, NoUUID)
    /\ mtime' = Fresh(mtime, i, 0, 0)
    /\ recs' = Fresh(recs, i, {}, {})
    /\ matched' = Fresh(matched, i, {}, {})
    /\ db' = db

\* the DELETE, then propagateChanges(p, uuid.New(), uint32(ts), "")
RmDelete(i) ==
    /\ pc[i] = "rm_delete"
    /\ db' = rmDelete(db, req[i].path, ts[i])
    /\ etag' = [etag EXCEPT ![i] = NewUUID(InitUUIDs, serial[i], 1)]
    /\ EnterPropagate(i, req[i].path)
    /\ UNCHANGED <<now, nreq, serial, req, id, mtime, ts, recs, ret, hist>>

(***************************************************************************)
(* The service.                                                            *)
(***************************************************************************)
Next ==
    \E i \in Procs :
        \/ GetUnauthenticated(i)
        \/ PutUnauthenticated(i)
        \/ MvUnauthenticated(i)
        \/ RmUnauthenticated(i)
        \/ GetCall(i)
        \/ GetRelookup(i)
        \/ PutCall(i)
        \/ PutBegin(i)
        \/ PutLookup(i)
        \/ PutInsert(i)
        \/ MvCall(i)
        \/ MvBegin(i)
        \/ MvUpdate(i)
        \/ RmCall(i)
        \/ RmDelete(i)
        \/ Propagate(i)

Spec == Init /\ [][Next]_vars

(***************************************************************************)
(* Properties.                                                             *)
(***************************************************************************)
Done(i) == pc[i] = "done"

\* segment-bounded prefix: q is p or lies under p
Under(q, p) == q = p \/ HasPrefix(q, p \o <<Sep>>)

\* p without its last segment
ParentOf(p) ==
    LET cut == {n \in 1..Len(p) : p[n] = Sep}
        last == CHOOSE n \in cut : \A m \in cut : m <= n
    IN  SubSeq(p, 1, last - 1)

\* the home directory p lies in: its first four segments
HomeOf(p) ==
    LET cut == {n \in 1..Len(p) : p[n] = Sep /\ Len(Split(SubSeq(p, 1, n - 1))) = HomeTokens}
    IN  IF cut = {} THEN p ELSE SubSeq(p, 1, (CHOOSE n \in cut : TRUE) - 1)

\* the directories from the home directory through the parent of p
AncestorDirs(p) ==
    {SubSeq(p, 1, n - 1) :
        n \in {m \in 1..Len(p) : p[m] = Sep /\ Len(Split(SubSeq(p, 1, m - 1))) >= HomeTokens}}

\* the path propagateChanges was called with
PropTarget(i) == IF req[i].op = "Mv" THEN req[i].dst ELSE req[i].path

\* handler i has served a request of kind op with no other request in flight
ServedAlone(i, op) == Done(i) /\ req[i].op = op /\ res[i] = "ok" /\ alone[i]

\* C1: after a Put with no concurrent request, every record at a directory
\* from the home directory through the parent of p has an mtime not older
\* than the mtime the Put stored on the record at p
C1_PutAncestorsNotOlder ==
    \A i \in Procs : ServedAlone(i, "Put") =>
        /\ \E q \in db : q.path = req[i].path /\ q.mtime = mtime[i]
        /\ \A r \in db : r.path \in AncestorDirs(req[i].path) => r.mtime >= mtime[i]

\* a Put served alone whose mtime is newer than what its ancestors held
C1_Witness ==
    \E i \in Procs :
        /\ ServedAlone(i, "Put")
        /\ \E r \in pre[i] : r.path \in AncestorDirs(req[i].path) /\ r.mtime < mtime[i]
        /\ \E r \in db : r.path \in AncestorDirs(req[i].path)

\* C2: after a Put or an Rm with no concurrent request, every record at an
\* ancestor directory of p carries the etag that operation generated
C2_AncestorsCarryNewEtag ==
    \A i \in Procs : (ServedAlone(i, "Put") \/ ServedAlone(i, "Rm")) =>
        \A r \in db : r.path \in AncestorDirs(req[i].path) => r.etag = etag[i]

\* record a of the matched set has been rewritten by Mv i
Rewritten(i, a) ==
    /\ a.id \in moved[i]
    /\ \E r \in db : r.id = a.id /\ r.path # a.path

\* record a of the matched set is still where Mv i found it
StillAtSrc(i, a) == \E r \in db : r.id = a.id /\ r.path = a.path

\* C3: in no state, while a Mv runs or after it has returned, are some of
\* the matched records rewritten to dst while others are still at src
C3_MvAllOrNothing ==
    \A i \in Procs : req[i].op = "Mv" =>
        ~ \E a \in matched[i], b \in matched[i] : Rewritten(i, a) /\ StillAtSrc(i, b)

\* C4: a Mv served alone rewrites exactly the records at src or under src
\* (segment-bounded), each from src+suffix to dst+suffix, and the path of
\* no other record
C4_MvRewritesExactlySubtree ==
    \A i \in Procs : ServedAlone(i, "Mv") =>
        \A r \in pre[i] :
            LET src == req[i].path
                suffix == SubSeq(r.path, Len(src) + 1, Len(r.path))
            IN  IF Under(r.path, src)
                THEN \E x \in db : x.id = r.id /\ x.path = req[i].dst \o suffix
                ELSE \E x \in db : x.id = r.id /\ x.path = r.path

\* C5: an Rm served alone removes exactly the records at p or under p
\* (segment-bounded) whose mtime is older than its start time
C5_RmRemovesExactlySubtree ==
    \A i \in Procs : ServedAlone(i, "Rm") =>
        {r.id : r \in pre[i]} \ {r.id : r \in db}
            = {r.id : r \in {x \in pre[i] : Under(x.path, req[i].path) /\ x.mtime < ts[i]}}

\* C6: when the upsert of a Put(q) ran after an Rm(p), q at or under p, had
\* taken its cutoff, the record at q exists once both have returned
C6_PutAfterRmCutoffSurvives ==
    \A i \in Procs, j \in Procs :
        (/\ Done(i) /\ req[i].op = "Put" /\ res[i] = "ok"
         /\ Done(j) /\ req[j].op = "Rm" /\ res[j] = "ok"
         /\ serial[j] \in landed[i]
         /\ Under(req[i].path, req[j].path))
        => \E r \in db : r.path = req[i].path

\* C7: the record store holds at most one record per path
C7_OneRecordPerPath == \A r1 \in db, r2 \in db : r1.path = r2.path => r1 = r2

\* two Puts to one path, neither of which found a record there, have both
\* run their upsert
C7_Witness ==
    \E i \in Procs, j \in Procs :
        /\ i # j
        /\ req[i].op = "Put" /\ req[j].op = "Put"
        /\ req[i].path = req[j].path
        /\ pc[i] \in {"propagate", "done"} /\ pc[j] \in {"propagate", "done"}
        /\ id[i] # id[j]
        /\ getByPath(pre[i], req[i].path) = {} /\ getByPath(pre[j], req[j].path) = {}
        /\ getByPath(db, req[i].path) # {}

\* handler i takes a step (being ended by the panic of another handler is
\* no step of its own)
StepOf(i) ==
    /\ <<pc[i], k[i]>> # <<pc'[i], k'[i]>>
    /\ pc'[i] = "crashed" => res'[i] = "panic"

\* a record lives on with an mtime that is not older
NotOlder(r) == \E r2 \in db' : r2.id = r.id /\ r2.path = r.path /\ r2.mtime >= r.mtime

\* C8: a conditional fingerprint update whose mtime is not newer than the
\* stored one changes nothing, no such update lowers an mtime, and no step
\* of a Put lowers the mtime of a record at an ancestor directory of its path
C8_PropagationMonotonic ==
    [][\A i \in Procs :
        /\ (pc[i] = "propagate" /\ StepOf(i)) =>
                \A r \in db : /\ NotOlder(r)
                              /\ r.mtime >= PropMTime(i) => r \in db'
        /\ (req[i].op = "Put" /\ InFlight(i) /\ StepOf(i)) =>
                \A r \in db : r.path \in AncestorDirs(req[i].path) => NotOlder(r)
      ]_vars

\* a Put is about to offer an ancestor directory an mtime older than the
\* one stored there: another request's propagation has overtaken it
C8_Witness ==
    \E i \in Procs :
        /\ pc[i] = "propagate"
        /\ req[i].op = "Put"
        /\ \E r \in db : /\ r.path = paths[i][k[i]]
                         /\ r.path \in AncestorDirs(req[i].path)
                         /\ r.mtime > mtime[i]

\* C9: the ancestor list of a path below a home directory starts at the
\* home directory, grows by one segment per element, ends at the parent of
\* the path, holds no duplicate and does not hold the path itself
C9_AncestorsEndAtParent ==
    \A i \in Procs : pc[i] = "propagate" =>
        LET p == PropTarget(i)
            l == paths[i]
        IN  /\ l # <<>>
            /\ l[1] = HomeOf(p)
            /\ l[Len(l)] = ParentOf(p)
            /\ \A n \in 1..(Len(l) - 1) : ParentOf(l[n + 1]) = l[n]
            /\ \A n \in 1..Len(l), m \in 1..Len(l) : l[n] = l[m] => n = m
            /\ \A n \in 1..Len(l) : l[n] # p

\* C10: a Mv keeps the id and the checksum of every record it moves, and
\* when it has returned all moved records carry the one etag and mtime it
\* generated; a Mv that succeeds has moved every record it matched
C10_MvKeepsIdAndChecksum ==
    \A i \in Procs : (Done(i) /\ req[i].op = "Mv" /\ alone[i]) =>
        /\ \A r \in pre[i] : r.id \in moved[i] =>
                \E x \in db : /\ x.id = r.id
                              /\ x.checksum = r.checksum
                              /\ x.etag = etag[i]
                              /\ x.mtime = mtime[i]
        /\ \A r \in pre[i] : r.etag # etag[i]
        /\ res[i] = "ok" => moved[i] = {r.id : r \in matched[i]}

\* a Mv served alone has moved two or more records, one with a checksum
C10_Witness ==
    \E i \in Procs :
        /\ ServedAlone(i, "Mv")
        /\ Cardinality(moved[i]) >= 2
        /\ \E r \in pre[i] : r.id \in moved[i] /\ r.checksum # ""

\* C11: a Mv whose prefix query matched no record returns success, and no
\* step it takes creates, deletes or modifies a record
C11_MvNoMatchIsNoOp ==
    [][\A i \in Procs :
        (req[i].op = "Mv" /\ InFlight(i) /\ matched[i] = {} /\ StepOf(i)) =>
            /\ db' = db
            /\ pc'[i] = "done" => res'[i] = "ok"
      ]_vars

\* C12: the upsert of a Put on a path that already holds a record, whether
\* an earlier or a concurrent Put created it, leaves that record with the
\* id it has
C12_PutKeepsId ==
    [][\A i \in Procs :
        (pc[i] = "put_insert" /\ StepOf(i)) =>
            \A r \in db : r.path = req[i].path =>
                \E x \in db' : x.path = r.path /\ x.id = r.id
      ]_vars

\* two concurrent Puts to a path without a record drew different ids; both
\* have run their upsert and the record carries the id of the first
C12_Witness ==
    \E i \in Procs, j \in Procs :
        /\ req[i].op = "Put" /\ req[j].op = "Put"
        /\ req[i].path = req[j].path
        /\ pc[i] \in {"propagate", "done"} /\ pc[j] \in {"propagate", "done"}
        /\ id[i] # id[j]
        /\ \E r \in db : r.path = req[i].path /\ r.id = id[i] /\ r.etag = etag[j]

\* handler i has served, with no other request in flight, an authenticated
\* request of kind op that came right after a Put of kind putOp on the same
\* path
ServedRightAfterPut(i, op, putOp) ==
    /\ Done(i) /\ req[i].op = op /\ alone[i]
    /\ ParseToken(req[i].token)
    /\ prior[i].op = putOp
    /\ prior[i].path = req[i].path

\* C13: a Get(p) that follows a Put(p, c) with no request in between returns
\* a record with path p, checksum c and the etag and mtime the Put generated
C13_GetReadsBackPut ==
    \A i \in Procs : ServedRightAfterPut(i, "Get", "Put") =>
        /\ res[i] = "ok"
        /\ ret[i].path = req[i].path
        /\ ret[i].checksum = prior[i].checksum
        /\ ret[i].etag = prior[i].etag
        /\ ret[i].mtime = prior[i].mtime

\* a Get has returned right after a Put with a checksum on its path, in a
\* later second than the records of the initial store were written
C13_Witness ==
    \E i \in Procs :
        /\ ServedRightAfterPut(i, "Get", "Put")
        /\ prior[i].checksum = "c1"
        /\ prior[i].mtime > 1
        /\ res[i] = "ok"

\* C14: a Get with ForceCreation, served alone on a path without a record,
\* succeeds, leaves a record with an empty checksum at the path and returns
\* it; a Get without ForceCreation that comes right after it succeeds and
\* returns that record
C14_ForceCreationCreates ==
    \A i \in Procs :
        /\ (/\ Done(i) /\ req[i].op = "Get" /\ alone[i]
            /\ ParseToken(req[i].token)
            /\ req[i].force
            /\ getByPath(pre[i], req[i].path) = {})
           => /\ res[i] = "ok"
              /\ \E r \in db : /\ r.path = req[i].path
                               /\ r.checksum = ""
                               /\ ret[i] = Projection(r)
        /\ (ServedRightAfterPut(i, "Get", "Get") /\ ~req[i].force)
           => /\ res[i] = "ok"
              /\ ret[i].path = req[i].path
              /\ ret[i].checksum = ""
              /\ ret[i].id # NoUUID
              /\ ret[i].etag = prior[i].etag
              /\ ret[i].mtime = prior[i].mtime

\* a Get without ForceCreation has returned the record that the Get with
\* ForceCreation right before it created
C14_Witness ==
    \E i \in Procs :
        /\ ServedRightAfterPut(i, "Get", "Get")
        /\ ~req[i].force
        /\ getByPath(InitDb, req[i].path) = {}
        /\ ret[i].etag = prior[i].etag
        /\ prior[i].etag # NoUUID

\* C15: a Get with ForceCreation that returns success returns a record; when
\* its second lookup misses, whatever the other requests did, it fails
C15_ForceCreationNeverEmpty ==
    \A i \in Procs :
        (Done(i) /\ req[i].op = "Get" /\ req[i].force /\ res[i] = "ok") =>
            ret[i] # EmptyRecord

\* C16: a request of any of the four kinds whose token fails verification
\* returns Unauthenticated in the step that receives it, that step leaves
\* the store as it is, and its handler takes no further step
C16_BadTokenTouchesNothing ==
    [][\A i \in Procs :
        /\ (serial'[i] # serial[i] /\ req'[i] # NoReq /\ req'[i].token # "valid") =>
                /\ db' = db
                /\ pc'[i] = "done"
                /\ res'[i] = "Unauthenticated"
        /\ (req[i] # NoReq /\ req[i].token # "valid" /\ serial'[i] = serial[i]) =>
                /\ pc'[i] = pc[i]
                /\ res'[i] = res[i]
      ]_vars

\* an Rm with a bad token has returned Unauthenticated while another
\* request is in flight, and the records under its path are still there
C16_Witness ==
    \E i \in Procs :
        /\ req[i].op = "Rm" /\ req[i].token = "bad"
        /\ Done(i) /\ res[i] = "Unauthenticated"
        /\ \E j \in Procs : InFlight(j)
        /\ getRecordsWithPathPrefix(db, req[i].path) # {}

\* C17: a Put, Mv or Rm whose path is shallower than a home directory ends
\* with InvalidPath: ancestor resolution neither panics nor goes on with a
\* truncated list
C17_ShallowPathRejected ==
    \A i \in Procs :
        (/\ req[i].op \in {"Put", "Mv", "Rm"}
         /\ ParseToken(req[i].token)
         /\ SlicePanics(PropTarget(i))
         /\ pc[i] \in {"propagate", "done", "crashed"})
        => /\ pc[i] = "done"
           /\ res[i] = "InvalidPath"

\* C18: an authenticated Get without ForceCreation on a path without a
\* record fails with NotFound and returns no record; it draws no uuid, no
\* record carries a value it generated, and when no other request ran
\* beside it the store is the one it found
C18_GetMissNotFound ==
    \A i \in Procs :
        (/\ Done(i) /\ req[i].op = "Get"
         /\ ParseToken(req[i].token)
         /\ ~req[i].force
         /\ getByPath(pre[i], req[i].path) = {})
        => /\ res[i] = "NotFound"
           /\ ret[i] = EmptyRecord
           /\ etag[i] = NoUUID /\ id[i] = NoUUID
           /\ \A r \in db : /\ r.etag # NewUUID(InitUUIDs, serial[i], 1)
                            /\ r.id # NewUUID(InitUUIDs, serial[i], 2)
           /\ alone[i] => db = pre[i]

\* a Get without ForceCreation has failed with NotFound on a store that an
\* earlier request has changed
C18_Witness ==
    \E i \in Procs :
        /\ Done(i) /\ req[i].op = "Get" /\ ~req[i].force
        /\ res[i] = "NotFound"
        /\ alone[i]
        /\ db = pre[i]
        /\ db # InitDb

\* the records of store d that lie off the chain of p: neither at p nor at
\* a directory from the home directory through the parent of p
OffChain(d, p) == {r \in d : r.path # p /\ r.path \notin AncestorDirs(p)}

\* C19: no step of a Put(p, c) creates, deletes or modifies a record that
\* lies off the chain of p
C19_PutTouchesOnlyChain ==
    [][\A i \in Procs :
        (req[i].op = "Put" /\ InFlight(i) /\ StepOf(i)) =>
            OffChain(db', req[i].path) = OffChain(db, req[i].path)
      ]_vars

\* C20: once an Rm(p) that followed a Put(p, c), both served with no other
\* request in flight, has returned, no record exists at p, whatever the
\* seconds in which the two were served
C20_RmAfterPutRemoves ==
    \A i \in Procs : ServedRightAfterPut(i, "Rm", "Put") =>
        /\ res[i] = "ok"
        /\ getByPath(db, req[i].path) = {}

====
